---- MODULE Spec2Model ----
(***************************************************************************)
(* Dispute phase / timeline calculator of the court dashboard              *)
(* (utils/dispute-utils.js): getPhaseAndTransition, getAdjudicationPhase,  *)
(* getRoundPhasesAndTime and getDisputeTimeLine.                           *)
(*                                                                         *)
(* The functions are pure except for getDisputeTimeLine, which reads the   *)
(* wall clock.  The state machine below holds one dispute and one court    *)
(* configuration (fixed for a behaviour) and the record of the last call   *)
(* made on them: which function, with which instant, and what it gave.     *)
(*                                                                         *)
(* JavaScript values: a number that may be undefined/NaN is a sequence of  *)
(* length 0 (undefined, NaN) or 1 (the number).  Array indices are the     *)
(* source's (0-based); At reads them.                                      *)
(*                                                                         *)
(* The module also holds the polling hook useTotalActiveBalancePolling     *)
(* (its timers, its requests in flight and its React state), which is      *)
(* independent of the calculator: the calculator's behaviours leave the    *)
(* hook unrendered, the hook's behaviours leave the calculator uncalled.   *)
(***************************************************************************)
EXTENDS Integers, Sequences, FiniteSets, TLC

VARIABLES dispute, courtConfig, op, nowDate, result, timeLine

\* the calculator: inputs and the record of the last call
calcVars == <<dispute, courtConfig, op, nowDate, result, timeLine>>

VARIABLES jurorRegistryContract, termId, effect, mounted, totalActiveBalance,
          timeoutId, scheduled, timers, requests, lastAct

\* the polling hook
hookVars == <<jurorRegistryContract, termId, effect, mounted, totalActiveBalance,
              timeoutId, scheduled, timers, requests, lastAct>>

vars == <<calcVars, hookVars>>

----------------------------------------------------------------------------
(* Bounds of the model *)

\* a stage of a court config takes no term or MaxTerms terms
MaxTerms == 1
\* a dispute has at most MaxRounds rounds
MaxRounds == 2
\* instants (ms) range over 0, 500, .., 500 * MaxNow
MaxNow == 10
\* the polling hook calls setTimeout at most MaxTimers times
MaxTimers == 4
\* the polling hook's effect runs at most MaxEffects times
MaxEffects == 2
\* the hook is rendered with a termId of 1..MaxTermId
MaxTermId == 2

----------------------------------------------------------------------------
(* JavaScript values *)

Undefined == <<>>
NaN == <<>>
Num(x) == <<x>>
IsNum(v) == Len(v) = 1
Val(v) == v[1]

\* a + b and a * b on numbers that may be undefined (NaN propagates)
Add(a, b) == IF IsNum(a) /\ IsNum(b) THEN Num(Val(a) + Val(b)) ELSE NaN
Mul(a, b) == IF IsNum(a) /\ IsNum(b) THEN Num(Val(a) * Val(b)) ELSE NaN
\* a < b and a > b: any comparison with NaN is false
Lt(a, b) == IsNum(a) /\ IsNum(b) /\ Val(a) < Val(b)
Gt(a, b) == IsNum(a) /\ IsNum(b) /\ Val(a) > Val(b)

\* array[i] with the source's 0-based index; undefined out of range
InRange(array, i) == (i + 1) \in DOMAIN array
At(array, i) == array[i + 1]

----------------------------------------------------------------------------
(* Constants of the program *)

juryDraftingTerms == 3

\* dayjs(x).unix() is whole seconds; the code multiplies back by 1000
MsPerSecond == 1000

\* DisputesTypes.Phase: the phase constants the code compares with ===.
\* Appealing/AppealRuling and ConfirmingAppeal/ConfirmAppeal are one phase each.
Phase ==
  [ Created          |-> "Created",
    Evidence         |-> "Evidence",
    JuryDrafting     |-> "JuryDrafting",
    Adjudicating     |-> "Adjudicating",
    Ruled            |-> "Ruled",
    VotingPeriod     |-> "VotingPeriod",
    RevealVote       |-> "RevealVote",
    Appealing        |-> "AppealRuling",
    AppealRuling     |-> "AppealRuling",
    ConfirmingAppeal |-> "ConfirmAppeal",
    ConfirmAppeal    |-> "ConfirmAppeal",
    ExecuteRuling    |-> "ExecuteRuling",
    ClaimRewards     |-> "ClaimRewards",
    Invalid          |-> "Invalid" ]

\* phase.<name> where phase is a primitive (symbol/string): always undefined
PhaseMember(phase, name) == "undefined"

----------------------------------------------------------------------------
(* court-utils.getTermStartTime *)

\* start of term termId: terms are consecutive, termDuration long, term 0 at 0
getTermStartTime(term, config) == term * config.termDuration

----------------------------------------------------------------------------
(* Results *)

NotCalled == [outcome |-> "notCalled"]
TypeError == [outcome |-> "TypeError"]
ReturnedUndefined == [outcome |-> "undefined"]

\* { phase, nextTransition?, roundId, ruling? }
PhaseRecord(phase, nextTransition, roundId, ruling) ==
  [ outcome        |-> "return",
    phase          |-> phase,
    nextTransition |-> nextTransition,
    roundId        |-> roundId,
    ruling         |-> ruling ]

----------------------------------------------------------------------------
(* dayjs(nowDate).unix() * 1000 *)

unix(ms) == ms \div MsPerSecond

ToNow(d) == unix(d) * MsPerSecond

----------------------------------------------------------------------------
(* Expressions of getPhaseAndTransition *)

\* faulty variant: the dispute's creation time left out
evidenceSubmissionEndTime_NoCreatedAt(createdAt, termDuration, evidenceTerms) ==
  termDuration * evidenceTerms

\* createdAt + termDuration * evidenceTerms
evidenceSubmissionEndTime(createdAt, termDuration, evidenceTerms) ==
  createdAt + termDuration * evidenceTerms

\* faulty variant: the comparison inverted
PastEvidence_Inverted(now, evidenceEnd) == now < evidenceEnd

\* now > evidenceSubmissionEndTime
PastEvidence(now, evidenceEnd) == now > evidenceEnd

\* faulty variant: one term instead of juryDraftingTerms
JuryDraftingEnd_OneTerm(start, termDuration) == start + termDuration

\* start + termDuration * juryDraftingTerms
JuryDraftingEnd(start, termDuration) == start + termDuration * juryDraftingTerms

\* draftTermId + delayedTerms, the term whose start ends the draft
DraftTerm(round) == round.draftTermId + round.delayedTerms

----------------------------------------------------------------------------
(* Expressions of getAdjudicationPhase *)

\* faulty variant: the boundary instant still counts as before
Before_OrAt(now, boundary) == Lt(Num(now), boundary) \/ Num(now) = boundary

\* now < boundary
Before(now, boundary) == Lt(Num(now), boundary)

\* faulty variant: the last round's index compared instead of the round count
maxAppealReached_LastRoundId(numberOfRounds, maxRegularAppealRounds) ==
  numberOfRounds - 1 > maxRegularAppealRounds

\* numberOfRounds > maxRegularAppealRounds
maxAppealReached(numberOfRounds, maxRegularAppealRounds) ==
  numberOfRounds > maxRegularAppealRounds

\* faulty variant: the negation of the appeal test
isLastRoundAppealed_Inverted(round) == ~round.appeal

\* !!round.appeal
isLastRoundAppealed(round) == round.appeal

\* previous boundary + terms * termDuration
NextBoundary(previous, terms, termDuration) == Add(previous, Mul(terms, termDuration))

----------------------------------------------------------------------------
(* courtConfig.appealConfirmTerms: undefined when the config lacks the field *)

Field_appealConfirmTerms(config) ==
  IF config.hasAppealConfirmTerms THEN Num(config.appealConfirmationTerms) ELSE Undefined

----------------------------------------------------------------------------
(* getAdjudicationPhase(dispute, round, now, draftTermEndTime, courtConfig) *)
(* returns { phase, nextTransition? }                                       *)

getAdjudicationPhase(d, round, now, draftTermEndTime, config) ==
  LET termDuration == Num(config.termDuration)
      commitTerms == Num(config.commitTerms)
      revealTerms == Num(config.revealTerms)
      appealTerms == Num(config.appealTerms)
      appealConfirmTerms == Field_appealConfirmTerms(config)
      maxRegularAppealRounds == config.maxRegularAppealRounds
      numberOfRounds == Len(d.rounds)
      revealTermStartTime ==
        NextBoundary(Num(draftTermEndTime), commitTerms, termDuration)
      appealTermStartTime ==
        NextBoundary(revealTermStartTime, revealTerms, termDuration)
      appealConfirmationTermStartTime ==
        NextBoundary(appealTermStartTime, appealTerms, termDuration)
      appealConfirmationTermEndTime ==
        NextBoundary(appealConfirmationTermStartTime, appealConfirmTerms, termDuration)
  IN  IF Before(now, revealTermStartTime)
        THEN [phase |-> Phase.VotingPeriod, nextTransition |-> revealTermStartTime]
      ELSE IF Before(now, appealTermStartTime)
        THEN [phase |-> Phase.RevealVote, nextTransition |-> appealTermStartTime]
      ELSE IF maxAppealReached(numberOfRounds, maxRegularAppealRounds)
        THEN [phase |-> Phase.ExecuteRuling, nextTransition |-> Undefined]
      ELSE IF ~isLastRoundAppealed(round)
        THEN IF Before(now, appealConfirmationTermStartTime)
               THEN [phase |-> Phase.Appealing,
                     nextTransition |-> appealConfirmationTermStartTime]
               ELSE [phase |-> Phase.ExecuteRuling, nextTransition |-> Undefined]
      ELSE IF Before(now, appealConfirmationTermEndTime)
        THEN [phase |-> Phase.ConfirmingAppeal,
              nextTransition |-> appealConfirmationTermEndTime]
      ELSE [phase |-> Phase.ExecuteRuling, nextTransition |-> Undefined]

----------------------------------------------------------------------------
(* getPhaseAndTransition(dispute, courtConfig, nowDate) *)

\* faulty variant: another field of the round taken for its number
RoundNumber_DraftTermId(round) == round.draftTermId

\* const { number } = lastRound
RoundNumber(round) == round.number

\* the body of getPhaseAndTransition once lastRound is destructured
PhaseAndTransitionOf(d, config, now, lastRound) ==
  LET state == d.state
      createdAt == d.createdAt
      number == RoundNumber(lastRound)
      termDuration == config.termDuration
      evidenceTerms == config.evidenceTerms
  IN  IF state = Phase.Ruled
        THEN PhaseRecord(Phase.ClaimRewards, Undefined, number, "null")
      ELSE IF state = Phase.Evidence
        THEN LET evidenceEnd ==
                   evidenceSubmissionEndTime(createdAt, termDuration, evidenceTerms)
             IN  IF PastEvidence(now, evidenceEnd)
                   THEN PhaseRecord(Phase.JuryDrafting,
                          Num(JuryDraftingEnd(evidenceEnd, termDuration)),
                          number, "absent")
                   ELSE PhaseRecord(state, Num(evidenceEnd), number, "absent")
      ELSE IF state = Phase.JuryDrafting
        THEN PhaseRecord(Phase.JuryDrafting,
               Num(JuryDraftingEnd(lastRound.createdAt, termDuration)),
               number, "absent")
      ELSE IF state = Phase.Adjudicating
        THEN LET draftTermEndTime == getTermStartTime(DraftTerm(lastRound), config)
                 currentAdjudicationPhase ==
                   getAdjudicationPhase(d, lastRound, now, draftTermEndTime, config)
             IN  PhaseRecord(currentAdjudicationPhase.phase,
                   currentAdjudicationPhase.nextTransition, number, "absent")
      ELSE ReturnedUndefined

\* faulty variant: a missing last round answered with undefined, not an error
getPhaseAndTransition_NoThrow(d, config, date) ==
  IF ~InRange(d.rounds, d.lastRoundId)
    THEN ReturnedUndefined
    ELSE PhaseAndTransitionOf(d, config, ToNow(date), At(d.rounds, d.lastRoundId))

getPhaseAndTransition(d, config, date) ==
  IF ~InRange(d.rounds, d.lastRoundId)
    THEN TypeError   \* destructuring of an undefined lastRound
    ELSE PhaseAndTransitionOf(d, config, ToNow(date), At(d.rounds, d.lastRoundId))

----------------------------------------------------------------------------
(* Timeline entries.  An element of the timeline array is a phase entry     *)
(* { phase, endTime?, active?, roundId? } or, pushed as ONE element, the    *)
(* array of the rounds' ladders.                                            *)

PhaseEntry(phase, endTime, active, roundId) ==
  [ kind    |-> "phase",
    phase   |-> phase,
    endTime |-> endTime,
    active  |-> active,
    roundId |-> roundId,
    rounds  |-> <<>> ]

RoundsEntry(rounds) ==
  [ kind    |-> "rounds",
    phase   |-> "",
    endTime |-> Undefined,
    active  |-> Undefined,
    roundId |-> Undefined,
    rounds  |-> rounds ]

\* array.findIndex(e => e.phase === phase), 0-based, -1 when absent
findIndex(array, phase) ==
  IF \E i \in DOMAIN array : array[i].phase = phase
    THEN (CHOOSE i \in DOMAIN array :
            /\ array[i].phase = phase
            /\ \A j \in DOMAIN array : array[j].phase = phase => i <= j) - 1
    ELSE -1

\* array.slice(0, end)
slice0(array, end) ==
  SubSeq(array, 1, IF end > Len(array) THEN Len(array) ELSE end)

----------------------------------------------------------------------------
(* getRoundPhasesAndTime(courtConfig, round, currentPhase) *)

\* faulty variant: the current round's id on every entry
LadderEntry_CurrentRoundId(phase, endTime, roundId, currentPhase) ==
  PhaseEntry(phase, Num(endTime), <<phase = currentPhase.phase>>,
             Num(currentPhase.roundId))

\* { phase, endTime, active: phase === currentPhase.phase, roundId }
LadderEntry(phase, endTime, roundId, currentPhase) ==
  PhaseEntry(phase, Num(endTime), <<phase = currentPhase.phase>>, Num(roundId))

getRoundPhasesAndTime(config, round, currentPhase) ==
  LET termDuration == config.termDuration
      commitTerms == config.commitTerms
      revealTerms == config.revealTerms
      appealTerms == config.appealTerms
      appealConfirmationTerms == config.appealConfirmationTerms
      roundId == round.number
      disputeDraftTermTime == getTermStartTime(DraftTerm(round), config)
      roundPhasesAndTime ==
        << LadderEntry(Phase.JuryDrafting,
             round.createdAt + termDuration * juryDraftingTerms,
             roundId, currentPhase),
           LadderEntry(Phase.VotingPeriod,
             disputeDraftTermTime + termDuration * commitTerms,
             roundId, currentPhase),
           LadderEntry(Phase.RevealVote,
             disputeDraftTermTime + termDuration * (commitTerms + revealTerms),
             roundId, currentPhase),
           LadderEntry(Phase.AppealRuling,
             disputeDraftTermTime
               + termDuration * (commitTerms + revealTerms + appealTerms),
             roundId, currentPhase),
           LadderEntry(Phase.ConfirmAppeal,
             disputeDraftTermTime
               + termDuration
                 * (commitTerms + revealTerms + appealTerms + appealConfirmationTerms),
             roundId, currentPhase) >>
  IN  IF roundId < currentPhase.roundId
        THEN roundPhasesAndTime
        ELSE slice0(roundPhasesAndTime,
                    findIndex(roundPhasesAndTime, currentPhase.phase) + 1)

----------------------------------------------------------------------------
(* getDisputeTimeLine(dispute, courtConfig); wallClock is what new Date()   *)
(* reads during the call                                                    *)

getDisputeTimeLine(d, config, wallClock) ==
  LET currentPhaseAndTime == getPhaseAndTransition(d, config, wallClock)
  IN  IF currentPhaseAndTime.outcome = "TypeError"
        THEN TypeError
      ELSE IF currentPhaseAndTime.outcome = "undefined"
        THEN TypeError   \* currentPhaseAndTime.phase of undefined
      ELSE
        LET timeLine0 ==
              << PhaseEntry(Phase.Created, Num(d.createdAt), Undefined, Undefined),
                 PhaseEntry(Phase.Evidence,
                   Num(d.createdAt + config.termDuration * config.evidenceTerms),
                   <<currentPhaseAndTime.phase = Phase.Evidence>>, Undefined) >>
            rounds ==
              [i \in DOMAIN d.rounds |->
                 getRoundPhasesAndTime(config, d.rounds[i], currentPhaseAndTime)]
            timeLine1 == Append(timeLine0, RoundsEntry(rounds))
        IN  IF Len(rounds) = 0
              THEN [outcome |-> "return", timeLine |-> timeLine0]
            ELSE IF Phase.ExecuteRuling
                      = PhaseMember(currentPhaseAndTime.phase, "ExecuteRuling")
              THEN [outcome  |-> "return",
                    timeLine |->
                      Append(timeLine1,
                        PhaseEntry(Phase.ExecuteRuling, Undefined,
                          << Phase.ExecuteRuling
                               = PhaseMember(currentPhaseAndTime.phase, "ExecuteRuling") >>,
                          Undefined))]
            ELSE IF Phase.ClaimRewards
                      = PhaseMember(currentPhaseAndTime.phase, "ClaimRewards")
              THEN [outcome  |-> "return",
                    timeLine |->
                      Append(timeLine1,
                        PhaseEntry(Phase.ClaimRewards, Undefined,
                          <<currentPhaseAndTime.phase = Phase.ClaimRewards>>,
                          Undefined))]
            ELSE [outcome |-> "return", timeLine |-> timeLine1]

----------------------------------------------------------------------------
(* Inputs *)

TermCounts == {0, MaxTerms}

TermDurations == {500, 1000}

NowValues == {500 * i : i \in 0 .. MaxNow}

CreatedAtValues == {1000}

DisputeStates ==
  {Phase.Evidence, Phase.JuryDrafting, Phase.Adjudicating, Phase.Ruled, Phase.Invalid}

\* a court config with the fields of the data model; hasAppealConfirmTerms tells
\* whether it also carries the confirmation term count under the name
\* appealConfirmTerms, the one getAdjudicationPhase reads
CourtConfigs ==
  [ termDuration            : TermDurations,
    evidenceTerms           : TermCounts,
    commitTerms             : TermCounts,
    revealTerms             : TermCounts,
    appealTerms             : TermCounts,
    appealConfirmationTerms : TermCounts,
    maxRegularAppealRounds  : 1 .. MaxRounds,
    hasAppealConfirmTerms   : BOOLEAN ]

\* round i of n: every round but the last was appealed and confirmed
Round(i, n, createdAt, delayedTerms, appeal) ==
  [ number       |-> i,
    draftTermId  |-> i + 1,
    delayedTerms |-> IF i = n - 1 THEN delayedTerms ELSE 0,
    createdAt    |-> createdAt + 1000 * i,
    appeal       |-> IF i = n - 1 THEN appeal ELSE TRUE ]

Rounds(n, createdAt, delayedTerms, appeal) ==
  [i \in 1 .. n |-> Round(i - 1, n, createdAt, delayedTerms, appeal)]

Disputes ==
  { [ state       |-> s,
      createdAt   |-> c,
      rounds      |-> Rounds(n, c, dl, ap),
      lastRoundId |-> n - 1 ] :
    s \in DisputeStates, c \in CreatedAtValues,
    n \in 0 .. MaxRounds, dl \in 0 .. 1, ap \in BOOLEAN }

----------------------------------------------------------------------------
(* useTotalActiveBalancePolling(termId).                                    *)
(*                                                                          *)
(* effect is the number of runs of the useEffect so far: run number e owns  *)
(* the fetchTotalActiveBalance callback created for it, and every timer and *)
(* request carries the run (and the termId) whose callback made it.         *)
(* timers are the pending setTimeout timers, requests the                   *)
(* totalActiveBalanceAt calls in flight, timeoutId is timeoutId.current     *)
(* (0 for null) and scheduled the number of setTimeout calls so far.        *)
(* lastAct records the last step of a polling loop: what it did and whether *)
(* the cleanup of its effect run had already run.                           *)

\* useState(bigNum(-1))
InitialBalance == 0 - 1

TermIds == 1 .. MaxTermId

\* the balances the contract answers with
Balances == {100, 200}

NoAct == [kind |-> "none", effect |-> 0, afterCleanup |-> FALSE]

HookUnrendered ==
  /\ jurorRegistryContract \in BOOLEAN
  /\ termId \in TermIds
  /\ effect = 0
  /\ mounted = FALSE
  /\ totalActiveBalance = InitialBalance
  /\ timeoutId = 0
  /\ scheduled = 0
  /\ timers = {}
  /\ requests = {}
  /\ lastAct = NoAct

\* the hook is not rendered within the calculator's behaviours
HookAbsent ==
  /\ jurorRegistryContract = FALSE
  /\ termId = 1
  /\ effect = 0
  /\ mounted = FALSE
  /\ totalActiveBalance = InitialBalance
  /\ timeoutId = 0
  /\ scheduled = 0
  /\ timers = {}
  /\ requests = {}
  /\ lastAct = NoAct

\* ids handed out by setTimeout: 1, 2, ..
NextTimerId == scheduled + 1

\* clearTimeout(id): a pending timer of that id is dropped, otherwise no-op
clearTimeout(pending, id) == {t \in pending : t.id # id}

\* the effect run e has been cleaned up: a later run replaced it, or the
\* component was unmounted
CleanedUp(e) == ~(mounted /\ e = effect)

\* fetchTotalActiveBalance() of the callback owned by effect run e, created
\* with contract and tid, on the pending timers left by the caller
fetchTotalActiveBalance(contract, e, tid, pending) ==
  IF ~contract
    THEN /\ timers' = pending
         /\ UNCHANGED <<timeoutId, scheduled>>
    ELSE /\ timers' = pending \cup {[id |-> NextTimerId, effect |-> e, termId |-> tid]}
         /\ timeoutId' = NextTimerId
         /\ scheduled' = scheduled + 1

Act(kind, e) == [kind |-> kind, effect |-> e, afterCleanup |-> CleanedUp(e)]

\* first render: the effect runs and calls fetchTotalActiveBalance
RunEffect ==
  /\ ~mounted
  /\ effect = 0
  /\ mounted' = TRUE
  /\ effect' = 1
  /\ fetchTotalActiveBalance(jurorRegistryContract, 1, termId, timers)
  /\ lastAct' = [kind |-> "effect", effect |-> 1, afterCleanup |-> FALSE]
  /\ UNCHANGED <<jurorRegistryContract, termId, totalActiveBalance, requests>>

\* the contract becomes available or the component is rendered with another
\* termId: fetchTotalActiveBalance is created anew, the cleanup of the last
\* effect run runs and the effect runs again
DepsChange(contract, tid) ==
  /\ mounted
  /\ effect < MaxEffects
  /\ scheduled < MaxTimers
  /\ jurorRegistryContract => contract
  /\ <<contract, tid>> # <<jurorRegistryContract, termId>>
  /\ jurorRegistryContract' = contract
  /\ termId' = tid
  /\ effect' = effect + 1
  /\ fetchTotalActiveBalance(contract, effect + 1, tid, clearTimeout(timers, timeoutId))
  /\ lastAct' = [kind |-> "effect", effect |-> effect + 1, afterCleanup |-> FALSE]
  /\ UNCHANGED <<mounted, totalActiveBalance, requests>>

\* the component unmounts: the cleanup of the last effect run runs
Unmount ==
  /\ mounted
  /\ mounted' = FALSE
  /\ timers' = clearTimeout(timers, timeoutId)
  /\ lastAct' = [kind |-> "cleanup", effect |-> effect, afterCleanup |-> FALSE]
  /\ UNCHANGED <<jurorRegistryContract, termId, effect, totalActiveBalance,
                 timeoutId, scheduled, requests>>

\* a pending timer fires: its callback calls totalActiveBalanceAt(termId)
TimerFires(t) ==
  /\ t \in timers
  /\ timers' = timers \ {t}
  /\ requests' = requests \cup {t}
  /\ lastAct' = Act("request", t.effect)
  /\ UNCHANGED <<jurorRegistryContract, termId, effect, mounted,
                 totalActiveBalance, timeoutId, scheduled>>

\* .then: setTotalActiveBalance(balance) (React drops the update of an
\* unmounted component), clearTimeout(timeoutId.current),
\* fetchTotalActiveBalance()
RequestResolves(r, balance) ==
  /\ r \in requests
  /\ scheduled < MaxTimers
  /\ requests' = requests \ {r}
  /\ totalActiveBalance' = IF mounted THEN balance ELSE totalActiveBalance
  /\ fetchTotalActiveBalance(TRUE, r.effect, r.termId, clearTimeout(timers, timeoutId))
  /\ lastAct' = Act("setTotalActiveBalance", r.effect)
  /\ UNCHANGED <<jurorRegistryContract, termId, effect, mounted>>

\* .catch: fetchTotalActiveBalance()
RequestRejects(r) ==
  /\ r \in requests
  /\ scheduled < MaxTimers
  /\ requests' = requests \ {r}
  /\ fetchTotalActiveBalance(TRUE, r.effect, r.termId, timers)
  /\ lastAct' = Act("retry", r.effect)
  /\ UNCHANGED <<jurorRegistryContract, termId, effect, mounted, totalActiveBalance>>

----------------------------------------------------------------------------
(* The state machine *)
(* The dispute and the court config are snapshots, fixed for a behaviour.  *)
(* The caller polls: each call is made one instant (500 ms) after the last *)
(* one, the first at instant 0.                                            *)

Init ==
  /\ dispute \in Disputes
  /\ courtConfig \in CourtConfigs
  /\ op = "none"
  /\ nowDate = 0
  /\ result = NotCalled
  /\ timeLine = NotCalled
  /\ HookAbsent

NextInstant == IF op = "none" THEN 0 ELSE nowDate + 500

\* a caller invokes getPhaseAndTransition(dispute, courtConfig, date)
CallGetPhaseAndTransition ==
  /\ NextInstant \in NowValues
  /\ op' = "getPhaseAndTransition"
  /\ nowDate' = NextInstant
  /\ result' = getPhaseAndTransition(dispute, courtConfig, NextInstant)
  /\ timeLine' = NotCalled
  /\ UNCHANGED <<dispute, courtConfig>>
  /\ UNCHANGED hookVars

\* getAdjudicationPhase applied to the last round of an Adjudicating dispute
\* with now = the instant itself (no conversion) and
\* draftTermEndTime = getTermStartTime(draftTermId + delayedTerms)
CallGetAdjudicationPhase ==
  /\ NextInstant \in NowValues
  /\ dispute.state = Phase.Adjudicating
  /\ InRange(dispute.rounds, dispute.lastRoundId)
  /\ LET lastRound == At(dispute.rounds, dispute.lastRoundId)
         r == getAdjudicationPhase(dispute, lastRound, NextInstant,
                getTermStartTime(DraftTerm(lastRound), courtConfig), courtConfig)
     IN  result' = PhaseRecord(r.phase, r.nextTransition, lastRound.number, "absent")
  /\ op' = "getAdjudicationPhase"
  /\ nowDate' = NextInstant
  /\ timeLine' = NotCalled
  /\ UNCHANGED <<dispute, courtConfig>>
  /\ UNCHANGED hookVars

Next ==
  \/ CallGetPhaseAndTransition
  \/ CallGetAdjudicationPhase

Spec == Init /\ [][Next]_vars

\* a caller invokes getDisputeTimeLine(dispute, courtConfig) while the wall
\* clock reads NextInstant
CallGetDisputeTimeLine ==
  /\ NextInstant \in NowValues
  /\ op' = "getDisputeTimeLine"
  /\ nowDate' = NextInstant
  /\ timeLine' = getDisputeTimeLine(dispute, courtConfig, NextInstant)
  /\ result' = NotCalled
  /\ UNCHANGED <<dispute, courtConfig>>
  /\ UNCHANGED hookVars

NextTimeLine ==
  \/ CallGetDisputeTimeLine

SpecTimeLine == Init /\ [][NextTimeLine]_vars

----------------------------------------------------------------------------
(* Callers that hand over a court config with a negative term field: the   *)
(* fields both functions destructure, one of them below zero.              *)

TermFields ==
  { "termDuration", "evidenceTerms", "commitTerms", "revealTerms",
    "appealTerms", "appealConfirmationTerms" }

IsMalformed(config) == \E f \in TermFields : config[f] < 0

MalformedConfigs ==
  { [config EXCEPT ![f] = 0 - config[f]] :
      config \in { c \in CourtConfigs :
                     /\ \A g \in TermFields \ {"termDuration"} : c[g] = MaxTerms
                     /\ c.maxRegularAppealRounds = MaxRounds },
      f \in TermFields }

InitMalformed ==
  /\ dispute \in Disputes
  /\ courtConfig \in MalformedConfigs
  /\ op = "none"
  /\ nowDate = 0
  /\ result = NotCalled
  /\ timeLine = NotCalled
  /\ HookAbsent

NextMalformed ==
  \/ CallGetPhaseAndTransition
  \/ CallGetDisputeTimeLine

SpecMalformed == InitMalformed /\ [][NextMalformed]_vars

----------------------------------------------------------------------------
(* The behaviours of the polling hook; the calculator is not called.        *)

InitPolling ==
  /\ HookUnrendered
  /\ dispute = CHOOSE d \in Disputes : Len(d.rounds) = 0 /\ d.state = Phase.Evidence
  /\ courtConfig = CHOOSE c \in CourtConfigs : c.termDuration = 1000
  /\ op = "none"
  /\ nowDate = 0
  /\ result = NotCalled
  /\ timeLine = NotCalled

NextPolling ==
  \/ RunEffect /\ UNCHANGED calcVars
  \/ \E contract \in BOOLEAN, tid \in TermIds :
       DepsChange(contract, tid) /\ UNCHANGED calcVars
  \/ Unmount /\ UNCHANGED calcVars
  \/ \E t \in timers : TimerFires(t) /\ UNCHANGED calcVars
  \/ \E r \in requests, balance \in Balances :
       RequestResolves(r, balance) /\ UNCHANGED calcVars
  \/ \E r \in requests : RequestRejects(r) /\ UNCHANGED calcVars

SpecPolling == InitPolling /\ [][NextPolling]_vars

----------------------------------------------------------------------------
(* Vocabulary of the properties: the stage boundaries as the data model     *)
(* states them, on the dispute and court config of the state.               *)

\* getPhaseAndTransition was called at instant nowDate and returned a record
Resolved == op = "getPhaseAndTransition" /\ result.outcome = "return"

\* getAdjudicationPhase was applied with now = nowDate
SubResolved == op = "getAdjudicationPhase"

\* the now that getAdjudicationPhase works on: the instant itself when applied
\* directly; through getPhaseAndTransition, the whole seconds of the caller's
\* instant, in ms
WholeSeconds(ms) == (ms \div 1000) * 1000

AdjudicationNow == IF SubResolved THEN nowDate ELSE WholeSeconds(nowDate)

\* an Adjudicating dispute was resolved, directly or through getPhaseAndTransition
AdjudicationResolved ==
  (Resolved \/ SubResolved) /\ dispute.state = Phase.Adjudicating

LastRound == dispute.rounds[Len(dispute.rounds)]

EvidenceEnd == dispute.createdAt + courtConfig.termDuration * courtConfig.evidenceTerms

DraftTermEndTime ==
  getTermStartTime(LastRound.draftTermId + LastRound.delayedTerms, courtConfig)

CommitEnd == DraftTermEndTime + courtConfig.commitTerms * courtConfig.termDuration

RevealEnd == CommitEnd + courtConfig.revealTerms * courtConfig.termDuration

AppealEnd == RevealEnd + courtConfig.appealTerms * courtConfig.termDuration

AppealConfirmEnd ==
  DraftTermEndTime
    + courtConfig.termDuration
      * (courtConfig.commitTerms + courtConfig.revealTerms + courtConfig.appealTerms
         + courtConfig.appealConfirmationTerms)

UnderCap == Len(dispute.rounds) <= courtConfig.maxRegularAppealRounds

\* Evidence < JuryDrafting < VotingPeriod < RevealVote < Appealing
\*   < ConfirmingAppeal < ExecuteRuling < ClaimRewards
PhaseRank(phase) ==
  CASE phase = "Evidence"      -> 1
    [] phase = "JuryDrafting"  -> 2
    [] phase = "VotingPeriod"  -> 3
    [] phase = "RevealVote"    -> 4
    [] phase = "AppealRuling"  -> 5
    [] phase = "ConfirmAppeal" -> 6
    [] phase = "ExecuteRuling" -> 7
    [] phase = "ClaimRewards"  -> 8
    [] OTHER                   -> 0

Is(phase, nextTransition) ==
  result.phase = phase /\ result.nextTransition = nextTransition

----------------------------------------------------------------------------
(* C1: for a fixed dispute and court config, when getPhaseAndTransition is  *)
(* called at an instant and then at a later one, the phase resolved at the  *)
(* later instant is never earlier, in the order Evidence < JuryDrafting <   *)
(* VotingPeriod < RevealVote < Appealing < ConfirmingAppeal < ExecuteRuling *)
(* < ClaimRewards, than the phase resolved at the earlier one.              *)
(* A step of the polling caller goes from one instant to the next, so the   *)
(* step property gives the order along every increasing sequence.           *)

C1_PhaseNeverRegresses ==
  [][ (Resolved /\ Resolved')
        => PhaseRank(result'.phase) >= PhaseRank(result.phase) ]_vars

\* a later call has resolved a later phase than the call at instant 0
C1_Witness ==
  /\ Resolved
  /\ nowDate > 0
  /\ result.phase = Phase.RevealVote
  /\ getPhaseAndTransition(dispute, courtConfig, 0).phase = Phase.VotingPeriod

----------------------------------------------------------------------------
(* C2: at now exactly equal to a stage boundary B (evidence end, commit     *)
(* end, reveal end, appeal end, appeal-confirm end) the stage ending at B   *)
(* is over: the resolved phase is a later one, never the stage ending at B. *)

C2_BoundaryIsPast ==
  /\ (Resolved /\ dispute.state = Phase.Evidence /\ nowDate = EvidenceEnd)
       => PhaseRank(result.phase) > PhaseRank(Phase.Evidence)
  /\ (AdjudicationResolved /\ AdjudicationNow = CommitEnd)
       => PhaseRank(result.phase) > PhaseRank(Phase.VotingPeriod)
  /\ (AdjudicationResolved /\ AdjudicationNow = RevealEnd)
       => PhaseRank(result.phase) > PhaseRank(Phase.RevealVote)
  /\ (AdjudicationResolved /\ AdjudicationNow = AppealEnd /\ ~LastRound.appeal)
       => PhaseRank(result.phase) > PhaseRank(Phase.Appealing)
  /\ (AdjudicationResolved /\ AdjudicationNow = AppealConfirmEnd /\ LastRound.appeal)
       => PhaseRank(result.phase) > PhaseRank(Phase.ConfirmingAppeal)

----------------------------------------------------------------------------
(* C3 (as claimed): for an Evidence-state dispute and every caller-supplied *)
(* now (ms) with now > createdAt + termDuration*evidenceTerms,              *)
(* getPhaseAndTransition returns JuryDrafting with nextTransition =         *)
(* createdAt + termDuration*evidenceTerms + termDuration*3.                 *)

C3_Original ==
  (Resolved /\ dispute.state = Phase.Evidence /\ nowDate > EvidenceEnd)
    => Is(Phase.JuryDrafting, Num(EvidenceEnd + courtConfig.termDuration * 3))

(* C3 (amended): for an Evidence-state dispute and every caller-supplied    *)
(* now (ms) whose whole seconds, floor(now/1000)*1000, are greater than     *)
(* createdAt + termDuration*evidenceTerms, getPhaseAndTransition returns    *)
(* JuryDrafting with nextTransition = createdAt + termDuration*evidenceTerms*)
(* + termDuration*3.                                                        *)

C3_JuryDraftingAfterEvidence ==
  (Resolved /\ dispute.state = Phase.Evidence /\ WholeSeconds(nowDate) > EvidenceEnd)
    => Is(Phase.JuryDrafting, Num(EvidenceEnd + courtConfig.termDuration * 3))

C3_Witness ==
  /\ Resolved
  /\ dispute.state = Phase.Evidence
  /\ WholeSeconds(nowDate) > EvidenceEnd
  /\ result.phase = Phase.JuryDrafting

----------------------------------------------------------------------------
(* C4: for an Evidence-state dispute and every now < createdAt +            *)
(* termDuration*evidenceTerms, getPhaseAndTransition returns Evidence with  *)
(* nextTransition = createdAt + termDuration*evidenceTerms.                 *)

C4_EvidenceBeforeEnd ==
  (Resolved /\ dispute.state = Phase.Evidence /\ nowDate < EvidenceEnd)
    => Is(Phase.Evidence, Num(EvidenceEnd))

C4_Witness ==
  /\ Resolved
  /\ dispute.state = Phase.Evidence
  /\ dispute.createdAt > 0
  /\ nowDate < EvidenceEnd
  /\ result.phase = Phase.Evidence

----------------------------------------------------------------------------
(* C5: for an Adjudicating dispute whose last round has an appeal and whose *)
(* number of rounds does not exceed maxRegularAppealRounds, with a config   *)
(* carrying appealConfirmationTerms: every now at or after the appeal       *)
(* boundary and before draftTermEndTime + termDuration*(commitTerms +       *)
(* revealTerms + appealTerms + appealConfirmationTerms) resolves to         *)
(* ConfirmingAppeal with that boundary as nextTransition, and every now at  *)
(* or after that boundary resolves to ExecuteRuling.                        *)

C5_ConfirmingAppeal ==
  (AdjudicationResolved /\ LastRound.appeal /\ UnderCap)
    => /\ (AppealEnd <= AdjudicationNow /\ AdjudicationNow < AppealConfirmEnd)
            => Is(Phase.ConfirmingAppeal, Num(AppealConfirmEnd))
       /\ (AdjudicationNow >= AppealConfirmEnd)
            => result.phase = Phase.ExecuteRuling

----------------------------------------------------------------------------
(* C6: for an Adjudicating dispute with rounds.length >                     *)
(* maxRegularAppealRounds, every now at or after the reveal boundary        *)
(* resolves to ExecuteRuling with no nextTransition, whether or not the     *)
(* last round has an appeal; Appealing and ConfirmingAppeal are never       *)
(* returned for such a dispute.                                             *)

C6_AppealCap ==
  (AdjudicationResolved /\ ~UnderCap)
    => /\ (AdjudicationNow >= RevealEnd) => Is(Phase.ExecuteRuling, Undefined)
       /\ result.phase \notin {Phase.Appealing, Phase.ConfirmingAppeal}

C6_Witness ==
  /\ SubResolved
  /\ ~UnderCap
  /\ LastRound.appeal
  /\ nowDate >= RevealEnd
  /\ nowDate < AppealEnd
  /\ result.phase = Phase.ExecuteRuling

----------------------------------------------------------------------------
(* C7: for an Adjudicating dispute with draftTermEndTime =                  *)
(* getTermStartTime(draftTermId + delayedTerms), every now < draftTermEnd-  *)
(* Time + commitTerms*termDuration resolves to VotingPeriod with that       *)
(* commit boundary as nextTransition, and every now from the commit         *)
(* boundary up to but excluding commit boundary + revealTerms*termDuration  *)
(* resolves to RevealVote with that reveal boundary as nextTransition,      *)
(* whatever the round's appeal and the number of rounds.                    *)

C7_CommitRevealLadder ==
  AdjudicationResolved
    => /\ (AdjudicationNow < CommitEnd) => Is(Phase.VotingPeriod, Num(CommitEnd))
       /\ (CommitEnd <= AdjudicationNow /\ AdjudicationNow < RevealEnd)
            => Is(Phase.RevealVote, Num(RevealEnd))

\* RevealVote at an instant that is not a whole second, for an appealed last
\* round of a dispute over the cap, drafted with a delay
C7_Witness ==
  /\ SubResolved
  /\ nowDate # WholeSeconds(nowDate)
  /\ CommitEnd <= nowDate /\ nowDate < RevealEnd
  /\ LastRound.appeal /\ ~UnderCap /\ LastRound.delayedTerms > 0
  /\ result.phase = Phase.RevealVote

----------------------------------------------------------------------------
(* C8: for an Adjudicating dispute under the appeal cap whose last round    *)
(* has no appeal, every now from the reveal boundary up to but excluding    *)
(* reveal boundary + appealTerms*termDuration resolves to Appealing with    *)
(* that appeal boundary as nextTransition, and every now at or after the    *)
(* appeal boundary resolves to ExecuteRuling with no nextTransition;        *)
(* ConfirmingAppeal is never returned for an unappealed round.              *)

C8_UnappealedRound ==
  (AdjudicationResolved /\ UnderCap /\ ~LastRound.appeal)
    => /\ (RevealEnd <= AdjudicationNow /\ AdjudicationNow < AppealEnd)
            => Is(Phase.Appealing, Num(AppealEnd))
       /\ (AdjudicationNow >= AppealEnd) => Is(Phase.ExecuteRuling, Undefined)
       /\ result.phase # Phase.ConfirmingAppeal

C8_Witness ==
  /\ SubResolved
  /\ UnderCap /\ ~LastRound.appeal
  /\ nowDate >= AppealEnd
  /\ result.phase = Phase.ExecuteRuling
  /\ \E n \in NowValues :
       /\ RevealEnd <= n /\ n < AppealEnd
       /\ getAdjudicationPhase(dispute, LastRound, n, DraftTermEndTime, courtConfig).phase
            = Phase.Appealing

----------------------------------------------------------------------------
(* Vocabulary of the timeline properties *)

TimeLineReturned == op = "getDisputeTimeLine" /\ timeLine.outcome = "return"

\* the phase currently resolved, at the instant the timeline was built
CurrentPhase == getPhaseAndTransition(dispute, courtConfig, nowDate).phase

LastEntry == timeLine.timeLine[Len(timeLine.timeLine)]

EndsWithActive(phase) ==
  /\ LastEntry.kind = "phase"
  /\ LastEntry.phase = phase
  /\ LastEntry.active = <<TRUE>>

----------------------------------------------------------------------------
(* C9: two invocations of getDisputeTimeLine with identical inputs          *)
(* (dispute, courtConfig) return structurally identical timelines: the      *)
(* timeline depends on nothing but its inputs, the wall clock is not read.  *)

C9_Determinism ==
  [][ (op = "getDisputeTimeLine" /\ op' = "getDisputeTimeLine"
         /\ dispute' = dispute /\ courtConfig' = courtConfig)
        => timeLine' = timeLine ]_vars

----------------------------------------------------------------------------
(* C10: whenever the currently resolved phase of a dispute with at least    *)
(* one round is ExecuteRuling, the timeline ends with an ExecuteRuling      *)
(* entry marked active; whenever it is ClaimRewards, the timeline ends with *)
(* a ClaimRewards entry marked active.                                      *)

C10_TrailingPhases ==
  (TimeLineReturned /\ Len(dispute.rounds) >= 1)
    => /\ (CurrentPhase = Phase.ExecuteRuling) => EndsWithActive(Phase.ExecuteRuling)
       /\ (CurrentPhase = Phase.ClaimRewards) => EndsWithActive(Phase.ClaimRewards)

----------------------------------------------------------------------------
(* Vocabulary of the per-round ladders of a returned timeline.              *)

HasLadders == TimeLineReturned /\ Len(dispute.rounds) >= 1

\* the ladders pushed as the third element: one per round, in round order
Ladders == timeLine.timeLine[3].rounds

CurrentLadder == Ladders[Len(Ladders)]

PhasesOf(ladder) == [j \in DOMAIN ladder |-> ladder[j].phase]

FullLadder ==
  << Phase.JuryDrafting, Phase.VotingPeriod, Phase.RevealVote,
     Phase.AppealRuling, Phase.ConfirmAppeal >>

IsLadderPhase(phase) == \E j \in DOMAIN FullLadder : FullLadder[j] = phase

IsPrefix(s, t) == Len(s) <= Len(t) /\ \A j \in DOMAIN s : s[j] = t[j]

----------------------------------------------------------------------------
(* C11: in a returned timeline every round whose number is below the        *)
(* current round's contributes the full ladder JuryDrafting, VotingPeriod,  *)
(* RevealVote, AppealRuling, ConfirmAppeal in this order; the current       *)
(* round contributes the prefix of that ladder that ends with the entry of  *)
(* the currently resolved phase, so that elapsed stages and the active one  *)
(* are present and only stages not reached yet are left out; when the       *)
(* resolved phase is ExecuteRuling or ClaimRewards every stage has elapsed  *)
(* and the whole ladder is present.                                         *)

C11_RoundTruncation ==
  HasLadders
    => /\ \A i \in DOMAIN Ladders :
            (dispute.rounds[i].number < LastRound.number)
              => PhasesOf(Ladders[i]) = FullLadder
       /\ IsPrefix(PhasesOf(CurrentLadder), FullLadder)
       /\ IsLadderPhase(CurrentPhase)
            => /\ Len(CurrentLadder) >= 1
               /\ CurrentLadder[Len(CurrentLadder)].phase = CurrentPhase
       /\ (CurrentPhase \in {Phase.ExecuteRuling, Phase.ClaimRewards})
            => PhasesOf(CurrentLadder) = FullLadder

----------------------------------------------------------------------------
(* C12: in a returned timeline the Evidence entry and every entry of every  *)
(* round's ladder is marked active exactly when its phase is the currently  *)
(* resolved phase (Appealing being AppealRuling and ConfirmingAppeal being  *)
(* ConfirmAppeal), and every ladder entry carries the number of its round   *)
(* as roundId.                                                              *)

C12_ActiveFlag ==
  TimeLineReturned
    => LET current == CurrentPhase
       IN  /\ timeLine.timeLine[2].phase = Phase.Evidence
           /\ timeLine.timeLine[2].active = <<current = Phase.Evidence>>
           /\ Len(dispute.rounds) >= 1
                => \A i \in DOMAIN Ladders :
                     \A j \in DOMAIN Ladders[i] :
                       /\ Ladders[i][j].active = <<Ladders[i][j].phase = current>>
                       /\ Ladders[i][j].roundId = Num(dispute.rounds[i].number)

\* a timeline of two rounds, the earlier one with its full ladder, an entry
\* of the current round marked active and an entry of it not marked
C12_Witness ==
  /\ HasLadders
  /\ Len(Ladders) = 2
  /\ Len(Ladders[1]) = 5
  /\ \E j \in DOMAIN CurrentLadder :
        CurrentLadder[j].active = <<TRUE>> /\ CurrentLadder[j].roundId = Num(1)
  /\ \E j \in DOMAIN CurrentLadder : CurrentLadder[j].active = <<FALSE>>

----------------------------------------------------------------------------
(* C13: for a dispute in state Ruled with at least one round,               *)
(* getPhaseAndTransition returns phase ClaimRewards with ruling null, no    *)
(* nextTransition and the number of the round at index lastRoundId as       *)
(* roundId, for every now and every config; in the states Evidence,         *)
(* JuryDrafting and Adjudicating the returned roundId is that round's       *)
(* number as well.                                                          *)

C13_RuledAndRoundId ==
  Resolved
    => /\ result.roundId = At(dispute.rounds, dispute.lastRoundId).number
       /\ (dispute.state = Phase.Ruled)
            => /\ result.phase = Phase.ClaimRewards
               /\ result.ruling = "null"
               /\ result.nextTransition = Undefined

\* a Ruled dispute of two rounds resolved at a later instant
C13_Witness ==
  /\ Resolved
  /\ dispute.state = Phase.Ruled
  /\ Len(dispute.rounds) = 2
  /\ nowDate > dispute.createdAt
  /\ result.phase = Phase.ClaimRewards
  /\ result.roundId = 1

----------------------------------------------------------------------------
(* C14: when the state of a dispute is Adjudicating or Ruled and its rounds *)
(* are empty, getPhaseAndTransition fails with an error and so does         *)
(* getDisputeTimeLine: no phase record and no timeline is returned.         *)

EmptyRounds == Len(dispute.rounds) = 0

C14_EmptyRoundsFail ==
  (op = "getDisputeTimeLine" /\ EmptyRounds
     /\ dispute.state \in {Phase.Adjudicating, Phase.Ruled})
    => /\ getPhaseAndTransition(dispute, courtConfig, nowDate) = TypeError
       /\ timeLine = TypeError

\* the timeline of an Adjudicating dispute without rounds was asked for
C14_Witness ==
  /\ op = "getDisputeTimeLine"
  /\ EmptyRounds
  /\ dispute.state = Phase.Adjudicating
  /\ timeLine.outcome = "TypeError"

----------------------------------------------------------------------------
(* C15: if one of termDuration, evidenceTerms, commitTerms, revealTerms,    *)
(* appealTerms, appealConfirmationTerms is negative in the court config,    *)
(* getPhaseAndTransition and getDisputeTimeLine fail with an error before   *)
(* computing anything: no phase record and no timeline derived from the     *)
(* malformed value is returned.                                             *)

C15_MalformedConfigFails ==
  IsMalformed(courtConfig)
    => /\ (op = "getPhaseAndTransition") => result.outcome = "TypeError"
       /\ (op = "getDisputeTimeLine") => timeLine.outcome = "TypeError"

----------------------------------------------------------------------------
(* C16: whenever getPhaseAndTransition returns a phase with a               *)
(* nextTransition, the timeline built at the same instant has an entry of   *)
(* that phase in the current round's ladder (the Evidence entry of the      *)
(* dispute when the phase is Evidence) whose endTime is that                *)
(* nextTransition, for every court config.                                  *)

CurrentPhaseAndTime == getPhaseAndTransition(dispute, courtConfig, nowDate)

C16_ResolverTimelineConsistency ==
  (TimeLineReturned /\ IsNum(CurrentPhaseAndTime.nextTransition))
    => IF CurrentPhaseAndTime.phase = Phase.Evidence
         THEN timeLine.timeLine[2].endTime = CurrentPhaseAndTime.nextTransition
         ELSE /\ Len(dispute.rounds) >= 1
              /\ \E j \in DOMAIN CurrentLadder :
                    /\ CurrentLadder[j].phase = CurrentPhaseAndTime.phase
                    /\ CurrentLadder[j].endTime = CurrentPhaseAndTime.nextTransition

----------------------------------------------------------------------------
(* C17: in every returned timeline at most one entry is marked active, and  *)
(* a ladder entry marked active belongs to the current (last) round: no     *)
(* entry of an earlier round is marked active.                              *)

\* the entries of a timeline laid out flat: <<position, 0>> for an entry of
\* the dispute, <<round, j>> for entry j of a round's ladder
ActiveEntries ==
  { <<k, 0>> : k \in { k \in DOMAIN timeLine.timeLine :
                         /\ timeLine.timeLine[k].kind = "phase"
                         /\ timeLine.timeLine[k].active = <<TRUE>> } }
  \cup
  ( IF Len(dispute.rounds) = 0
      THEN {}
      ELSE UNION { { <<0 - i, j>> : j \in { j \in DOMAIN Ladders[i] :
                                              Ladders[i][j].active = <<TRUE>> } } :
                   i \in DOMAIN Ladders } )

C17_UniqueActive ==
  TimeLineReturned
    => /\ Cardinality(ActiveEntries) <= 1
       /\ Len(dispute.rounds) >= 1
            => \A i \in DOMAIN Ladders : \A j \in DOMAIN Ladders[i] :
                 (Ladders[i][j].active = <<TRUE>>) => i = Len(Ladders)

----------------------------------------------------------------------------
(* C18: for a dispute in state Evidence whose rounds are empty,             *)
(* getPhaseAndTransition returns Evidence or JuryDrafting according to the  *)
(* evidence boundary and getDisputeTimeLine returns, without an error,      *)
(* exactly the two entries Created (endTime createdAt) and Evidence         *)
(* (endTime createdAt + termDuration * evidenceTerms).                      *)

C18_EvidenceWithoutRounds ==
  (op = "getDisputeTimeLine" /\ EmptyRounds /\ dispute.state = Phase.Evidence)
    => /\ CurrentPhaseAndTime.outcome = "return"
       /\ CurrentPhaseAndTime.phase \in {Phase.Evidence, Phase.JuryDrafting}
       /\ timeLine.outcome = "return"
       /\ Len(timeLine.timeLine) = 2
       /\ timeLine.timeLine[1].phase = Phase.Created
       /\ timeLine.timeLine[1].endTime = Num(dispute.createdAt)
       /\ timeLine.timeLine[2].phase = Phase.Evidence
       /\ timeLine.timeLine[2].endTime = Num(EvidenceEnd)

----------------------------------------------------------------------------
(* C19: once the cleanup of an effect run of useTotalActiveBalancePolling   *)
(* has run, the polling loop of that run issues no further                  *)
(* totalActiveBalanceAt request, performs no further state update and       *)
(* schedules no further timer, in every interleaving of timers firing,      *)
(* requests resolving or rejecting and the cleanup, a cleanup while a       *)
(* request is in flight included.                                           *)

C19_PollingShutdown ==
  (lastAct.kind \in {"request", "setTotalActiveBalance", "retry"})
    => ~lastAct.afterCleanup

====
